---- MODULE Spec2Model ----
(***************************************************************************)
(* A state-machine model of the CMDScript interpreter (src/app.py).        *)
(*                                                                         *)
(* Text is abstracted as follows.  A Python string that the interpreter    *)
(* computes with is a record [form, n, d, s]: form "int" is a decimal      *)
(* integer literal such as "3" (accepted by int() and float()), form "dec" *)
(* is a float-formatted number such as "3.0" or "0.5" (accepted by float() *)
(* only; its value is the exact quotient n/d), form "txt" is any other     *)
(* text (rejected by both), held as its sequence of characters s.  A       *)
(* script line is a record holding its leading indentation and the         *)
(* statement form its text has, so that every regular expression and       *)
(* startswith test of the source becomes a predicate on the statement      *)
(* record.                                                                 *)
(***************************************************************************)
EXTENDS Integers, Sequences, FiniteSets, TLC

VARIABLES
    script,      \* the lines of the script file, as read by main
    argInput,    \* the --input argument
    argStdin,    \* the lines that will be typed at input() prompts
    pc,          \* "init" before parse_script has run, then "run"
    parsed,      \* parsed_lines of main
    functions,   \* the global functions dict
    variables,   \* the global variables dict
    stack,       \* the call stack of main / run_function / executors
    status,      \* "running", "done", "exit0", "error", "crash"
    errmsg,      \* the message of the fatal error, "" if none
    errln,       \* the line number the fatal error reports, 0 if none
    out,         \* what has been printed by write and send
    stdin,       \* what is left of the typed lines
    execCount,   \* history: times execute_line has run, per line number
    lastInput,   \* history: the value most recently given to %1
    icqDepth,    \* history: stack height at the latest input prompt
    phase,       \* 1 for the run of script, 2 for the run of its inlining
    first,       \* the outcome of the run of phase 1, once phase is 2
    unit,        \* a call of the resolver or of the evaluator on its own
    HAVE_TOAST   \* a toast module was imported when the interpreter started

vars == <<script, argInput, argStdin, pc, parsed, functions, variables, stack,
          status, errmsg, errln, out, stdin, execCount, lastInput, icqDepth,
          phase, first, unit, HAVE_TOAST>>

(***************************************************************************)
(* Bounds of the model.                                                    *)
(***************************************************************************)
MaxN == 3            \* largest N of the counting loops `Count < N`
MaxStoreLen == 3     \* longest script of variable-store statements
MaxStack == 24       \* call-stack height at which Python gives up

(***************************************************************************)
(* Program constants.                                                      *)
(***************************************************************************)
MAX_LOOP_ITERATIONS == 10000
MAX_DEPTH == 16

(***************************************************************************)
(* Strings and Python values.                                              *)
(***************************************************************************)
\* the characters of a text of the model, by its name
Spell(w) ==
    CASE w = "" -> <<>>
      [] w = "go" -> <<"g", "o">>
      [] w = "no" -> <<"n", "o">>
      [] w = "abc" -> <<"a", "b", "c">>
      [] w = "end" -> <<"e", "n", "d">>
      [] w = "after" -> <<"a", "f", "t", "e", "r">>
      [] w = "None" -> <<"N", "o", "n", "e">>
      [] w = "Apple" -> <<"A", "p", "p", "l", "e">>
      [] w = "App" -> <<"A", "p", "p">>
      [] w = "app" -> <<"a", "p", "p">>
      [] w = "Banana" -> <<"B", "a", "n", "a", "n", "a">>
      [] w = "50%" -> <<"5", "0", "%">>
      [] w = "%1" -> <<"%", "1">>
      [] w = "%var" -> <<"%", "v", "a", "r">>
      [] w = "%NL%" -> <<"%", "N", "L", "%">>
      [] w = "Count" -> <<"C", "o", "u", "n", "t">>
      [] w = "Nope" -> <<"N", "o", "p", "e">>
      [] w = "write" -> <<"w", "r", "i", "t", "e">>
      [] w = "writer" -> <<"w", "r", "i", "t", "e", "r">>
      [] w = "send" -> <<"s", "e", "n", "d">>
      [] w = "msg" -> <<"m", "s", "g">>
      [] w = "wait" -> <<"w", "a", "i", "t">>
      [] w = "clear_console" ->
            <<"c", "l", "e", "a", "r", "_", "c", "o", "n", "s", "o", "l", "e">>
      [] OTHER -> <<w>>

\* a number num/den, den >= 1, in lowest terms
RECURSIVE Gcd(_, _)
Gcd(a, b) == IF b = 0 THEN a ELSE Gcd(b, a % b)
Abs(a) == IF a < 0 THEN 0 - a ELSE a

Text(cs) == [form |-> "txt", n |-> 0, d |-> 1, s |-> cs]
IntStr(n) == [form |-> "int", n |-> n, d |-> 1, s |-> <<>>]
DecStr(n) == [form |-> "dec", n |-> n, d |-> 1, s |-> <<>>]
TxtStr(w) == Text(Spell(w))
\* str() of the float num/den
FracStr(num, den) ==
    LET g == Gcd(Abs(num), den)
    IN  [form |-> "dec", n |-> num \div g, d |-> den \div g, s |-> <<>>]

PyNone == [form |-> "none", n |-> 0, d |-> 1, s |-> <<>>]
PyInt(n) == [form |-> "pyint", n |-> n, d |-> 1, s |-> <<>>]
PyFloat(n) == [form |-> "pyfloat", n |-> n, d |-> 1, s |-> <<>>]
\* float() of an accepted string
ToFloat(x) == [form |-> "pyfloat", n |-> x.n, d |-> x.d, s |-> <<>>]

\* str(v) of Python: an int prints as digits, a float with its ".0".
PyStr(v) ==
    CASE v.form = "pyint" -> IntStr(v.n)
      [] v.form = "pyfloat" -> FracStr(v.n, v.d)
      [] v.form = "none" -> TxtStr("None")
      [] OTHER -> v

\* float(x) succeeds; int(x) succeeds.
FloatOk(x) == x.form \in {"int", "dec"}
IntOk(x) == x.form = "int"

(***************************************************************************)
(* Tokens: the operand texts that resolve_value receives.                  *)
(***************************************************************************)
NoTok == [t |-> "none", w |-> "", v |-> TxtStr("")]
Quoted(x) == [t |-> "quoted", w |-> "", v |-> x]           \* "x", x the inner text
InTok == [t |-> "in", w |-> "%1", v |-> TxtStr("%1")]      \* %1
PVar(nm) == [t |-> "pvar", w |-> nm, v |-> TxtStr(nm)]     \* %var nm
BarePVar == [t |-> "pvar", w |-> "", v |-> TxtStr("%var")] \* %var, alone
Word(w) == [t |-> "word", w |-> w, v |-> TxtStr(w)]        \* a bare word
Num(n) == [t |-> "num", w |-> "", v |-> IntStr(n)]         \* a bare integer literal
Color(c) == [t |-> "color", w |-> c, v |-> TxtStr(c)]      \* %redtext, ..., %normal
NLTok == [t |-> "nl", w |-> "%NL%", v |-> TxtStr("%NL%")]  \* %NL%
\* l op r, the text the arithmetic pattern of resolve_value splits
Arith(l, op, r) == [t |-> "arith", w |-> op, v |-> TxtStr(""), l |-> l, r |-> r]

(***************************************************************************)
(* Statements: the text of a line, by the form it has.                     *)
(***************************************************************************)
Stmt(k, nm, a, op, b, toks) ==
    [k |-> k, nm |-> nm, a |-> a, op |-> op, b |-> b, toks |-> toks]

SIf(a, op, b) == Stmt("if", "", a, op, b, <<>>)          \* %if a op b
SBadIf == Stmt("badif", "", NoTok, "", NoTok, <<>>)      \* %if oops
SElse == Stmt("else", "", NoTok, "", NoTok, <<>>)        \* %else
SWhile(a, op, b) == Stmt("while", "", a, op, b, <<>>)    \* %while a op b
SBadWhile == Stmt("badwhile", "", NoTok, "", NoTok, <<>>)\* %while oops
SAlias(al, nm) == Stmt("alias", nm, Word(al), "", NoTok, <<>>) \* %al = nm
SType(nm, ty) == Stmt("type", nm, NoTok, ty, NoTok, <<>>)   \* nm = %int
SAssign(nm, e) == Stmt("assign", nm, NoTok, "", e, <<>>)    \* nm%value = e
SIcq(ty) == Stmt("icq", "", NoTok, ty, NoTok, <<>>)      \* %icq "p" %int
SWrite(toks) == Stmt("write", "", NoTok, "", NoTok, toks)\* write t1 t2 ...
SSend == Stmt("send", "", NoTok, "", NoTok, <<>>)        \* send %NL%
SWait(n) == Stmt("wait", "", NoTok, "", Num(n), <<>>)    \* wait n
SMsg(title, subtitle) ==                                 \* msg %title t %subtitle s
    Stmt("msg", "", title, "", subtitle, <<>>)
SBadMsg == Stmt("badmsg", "", NoTok, "", NoTok, <<>>)    \* msg oops
SClear(delay) ==                                         \* clear_console [delay]
    Stmt("clear_console", "", NoTok, "", delay, <<>>)
SName(nm) == Stmt("name", nm, NoTok, "", NoTok, <<>>)    \* a line that is one bare name
SExit == Stmt("exit", "", NoTok, "", NoTok, <<>>)        \* the terminator sentinel
SFunc(nm) == Stmt("fdef", nm, NoTok, "", NoTok, <<>>)    \* %f nm:
SComment == Stmt("comment", "", NoTok, "", NoTok, <<>>)  \* # ...
SComment2 == Stmt("comment2", "", NoTok, "", NoTok, <<>>)\* ## ...
SBlank == Stmt("blank", "", NoTok, "", NoTok, <<>>)      \* an empty line

\* A line of the file: its leading spaces and its text.
Raw(ind, st) == [ind |-> ind, st |-> st]

\* line.startswith("%if"), line == "%else", line.startswith("%while")
StartsWithIf(st) == st.k \in {"if", "badif"}
IsElse(st) == st.k = "else"
StartsWithWhile(st) == st.k \in {"while", "badwhile"}

(***************************************************************************)
(* parse_script: comments and blank lines are dropped, the indented lines  *)
(* after a `%f name:` line go to functions[name], every kept line is       *)
(* stored stripped of its leading whitespace, with its line number.        *)
(***************************************************************************)
\* (ln, stripped): the stored text has no leading whitespace left
Stripped(ln, raw) == [ln |-> ln, ind |-> 0, st |-> raw.st]

RECURSIVE ParseFrom(_, _, _)
ParseFrom(lines, idx, acc) ==
    IF idx > Len(lines) THEN acc
    ELSE LET raw == lines[idx]
             k == raw.st.k
         IN  IF k \in {"blank", "comment2", "comment"}
             THEN ParseFrom(lines, idx + 1, acc)
             ELSE IF k = "fdef"
             THEN ParseFrom(lines, idx + 1,
                    [acc EXCEPT !.functions =
                                   [n \in DOMAIN acc.functions \cup {raw.st.nm} |->
                                      IF n = raw.st.nm THEN <<>> ELSE acc.functions[n]],
                                !.current = raw.st.nm,
                                !.inside = TRUE])
             ELSE IF acc.inside /\ raw.ind > 0
             THEN ParseFrom(lines, idx + 1,
                    [acc EXCEPT !.functions[acc.current] =
                                   Append(@, Stripped(idx, raw))])
             ELSE ParseFrom(lines, idx + 1,
                    [acc EXCEPT !.inside = FALSE,
                                !.current = "",
                                !.parsed = Append(@, Stripped(idx, raw))])

parse_script(lines) ==
    ParseFrom(lines, 1,
              [parsed |-> <<>>, functions |-> <<>>, current |-> "", inside |-> FALSE])

\* get_indent_level of a stored line
get_indent_level(line) == line.ind

\* find_block, with Python's 0-based indices: lines[i] is ls[i + 1]
RECURSIVE FindBlockFrom(_, _, _, _)
FindBlockFrom(ls, start, indent, i) ==
    IF i >= Len(ls) THEN i
    ELSE IF ls[i + 1].st.k = "blank" THEN i
    ELSE IF get_indent_level(ls[i + 1]) < indent /\ i > start THEN i
    ELSE FindBlockFrom(ls, start, indent, i + 1)

find_block(ls, start) ==
    IF start >= Len(ls) THEN start
    ELSE FindBlockFrom(ls, start, get_indent_level(ls[start + 1]), start)

(***************************************************************************)
(* COLOR_CODES, and the escape sequences it maps to.                       *)
(***************************************************************************)
ColorNames == {"%redtext", "%greentext", "%bluetext", "%purpletext", "%normal"}
COLOR_CODES(c) == TxtStr(
    CASE c = "%redtext" -> "ESC[91m"
      [] c = "%greentext" -> "ESC[92m"
      [] c = "%bluetext" -> "ESC[94m"
      [] c = "%purpletext" -> "ESC[95m"
      [] OTHER -> "ESC[0m")
ColorValues == {COLOR_CODES(c) : c \in ColorNames}
Newline == TxtStr("\n")

(***************************************************************************)
(* validate_variable_type                                                  *)
(***************************************************************************)
validate_variable_type(var_type, value) ==
    CASE var_type = "%int" -> IntOk(value)
      [] var_type = "%dec" -> FloatOk(value)
      [] var_type \in {"%txt", "%string"} -> TRUE
      [] OTHER -> FALSE

(***************************************************************************)
(* The characters of strings and of tokens.                                *)
(***************************************************************************)
DigitChar(k) ==
    CASE k = 0 -> "0" [] k = 1 -> "1" [] k = 2 -> "2" [] k = 3 -> "3"
      [] k = 4 -> "4" [] k = 5 -> "5" [] k = 6 -> "6" [] k = 7 -> "7"
      [] k = 8 -> "8" [] OTHER -> "9"
RECURSIVE NatChars(_)
NatChars(k) ==
    IF k < 10 THEN <<DigitChar(k)>>
    ELSE NatChars(k \div 10) \o <<DigitChar(k % 10)>>
\* the digits after the point of r/den, r < den, as far as a float prints them
RECURSIVE FracDigits(_, _, _)
FracDigits(r, den, k) ==
    IF r = 0 \/ k = 0 THEN <<>>
    ELSE <<DigitChar((10 * r) \div den)>> \o FracDigits((10 * r) % den, den, k - 1)

\* the characters of a string
Chars(x) ==
    CASE x.form = "txt" -> x.s
      [] x.form = "int" ->
            (IF x.n < 0 THEN <<"-">> ELSE <<>>) \o NatChars(Abs(x.n))
      [] OTHER ->
            (IF x.n < 0 THEN <<"-">> ELSE <<>>)
            \o NatChars(Abs(x.n) \div x.d) \o <<".">>
            \o (IF Abs(x.n) % x.d = 0 THEN <<"0">>
                ELSE FracDigits(Abs(x.n) % x.d, x.d, 16))

\* the text of a token, as it stands in the line
RECURSIVE TokenText(_)
TokenText(token) ==
    CASE token.t = "quoted" -> <<"\"">> \o Chars(token.v) \o <<"\"">>
      [] token.t = "pvar" /\ token.w # "" -> Spell("%var") \o <<" ">> \o Spell(token.w)
      [] token.t = "arith" ->
            TokenText(token.l) \o <<" ", token.w, " ">> \o TokenText(token.r)
      [] OTHER -> Chars(token.v)

\* s.startswith(p), s.endswith(p)
StartsWith(cs, p) == Len(cs) >= Len(p) /\ SubSeq(cs, 1, Len(p)) = p
EndsWith(cs, p) == Len(cs) >= Len(p) /\ SubSeq(cs, Len(cs) - Len(p) + 1, Len(cs)) = p
\* len(s.split())
RECURSIVE CountParts(_, _)
CountParts(cs, inword) ==
    IF cs = <<>> THEN 0
    ELSE IF Head(cs) = " " THEN CountParts(Tail(cs), FALSE)
    ELSE (IF inword THEN 0 ELSE 1) + CountParts(Tail(cs), TRUE)

(***************************************************************************)
(* resolve_value.  The result is [ok, v, err]: the resolved string, or the *)
(* message of the error() call that ends the run.  The priorities are      *)
(* tested on the text of the token, in the order of the source.            *)
(***************************************************************************)
Resolved(v) == [ok |-> TRUE, v |-> v, err |-> ""]
Failed(msg) == [ok |-> FALSE, v |-> TxtStr(""), err |-> msg]

\* the lookup of priorities 3 and 4
Lookup(store, nm) ==
    IF store[nm].value = PyNone THEN Failed("has no value")
    ELSE Resolved(PyStr(store[nm].value))

\* the float arithmetic of priority 5, on operands float() accepted
ApplyOp(op, x, y) ==
    CASE op = "+" -> Resolved(FracStr(x.n * y.d + y.n * x.d, x.d * y.d))
      [] op = "-" -> Resolved(FracStr(x.n * y.d - y.n * x.d, x.d * y.d))
      [] op = "*" -> Resolved(FracStr(x.n * y.n, x.d * y.d))
      [] OTHER -> IF y.n = 0 THEN Failed("Division by zero")
                  ELSE Resolved(FracStr((IF y.n < 0 THEN 0 - 1 ELSE 1) * x.n * y.d,
                                        x.d * Abs(y.n)))

\* mutant of ResolveQuoted: the text between the quotes is resolved in its turn
ResolveQuotedSubstitutes(token, text, input_val, store) ==
    IF token.t = "quoted" /\ token.v = TxtStr("%1") THEN Resolved(input_val)
    ELSE IF token.t = "quoted" THEN Resolved(token.v)
    ELSE Resolved(Text(SubSeq(text, 2, Len(text) - 1)))

\* priority 1: token[1:-1] of a text that starts and ends with a quote
ResolveQuoted(token, text, input_val, store) ==
    IF token.t = "quoted" THEN Resolved(token.v)
    ELSE Resolved(Text(SubSeq(text, 2, Len(text) - 1)))

\* priority 3: a text that starts with %var
ResolvePVar(token, text, store) ==
    IF CountParts(text, FALSE) # 2 THEN Failed("Bad %var usage")
    ELSE IF token.w \notin DOMAIN store THEN Failed("Unknown variable")
    ELSE Lookup(store, token.w)

\* priority 5, once both operands are resolved
ResolveArith(op, op1, op2) ==
    IF ~op1.ok THEN op1
    ELSE IF ~op2.ok THEN op2
    ELSE IF ~(FloatOk(op1.v) /\ FloatOk(op2.v))
    THEN Failed("Cannot perform arithmetic on non-numeric values")
    ELSE ApplyOp(op, op1.v, op2.v)

\* which priority of resolve_value the token falls under
Priority(token, text, store) ==
    CASE StartsWith(text, <<"\"">>) /\ EndsWith(text, <<"\"">>) -> 1
      [] token.t = "in" -> 2
      [] StartsWith(text, Spell("%var")) -> 3
      [] token.t = "word" /\ token.w \in DOMAIN store -> 4
      [] token.t = "arith" -> 5
      [] OTHER -> 6

RECURSIVE resolve_value(_, _, _)
ResolveAt(priority, token, text, input_val, store) ==
    CASE priority = 1 -> ResolveQuoted(token, text, input_val, store)
      [] priority = 2 -> Resolved(input_val)
      [] priority = 3 -> ResolvePVar(token, text, store)
      [] priority = 4 -> Lookup(store, token.w)
      [] priority = 5 ->
            ResolveArith(token.w, resolve_value(token.l, input_val, store),
                         resolve_value(token.r, input_val, store))
      [] OTHER -> Resolved(token.v)

ResolveText(token, text, input_val, store) ==
    ResolveAt(Priority(token, text, store), token, text, input_val, store)

resolve_value(token, input_val, store) ==
    ResolveText(token, TokenText(token), input_val, store)

(***************************************************************************)
(* evaluate_condition.  The result is [ok, b, err].                        *)
(***************************************************************************)
CondIs(b) == [ok |-> TRUE, b |-> b, err |-> ""]
CondFailed(msg) == [ok |-> FALSE, b |-> FALSE, err |-> msg]

\* rhs in lhs
Contains(lhs, rhs) ==
    \E k \in 0..(Len(lhs) - Len(rhs)) : SubSeq(lhs, k + 1, k + Len(rhs)) = rhs

\* s.lower()
UpperCase == <<"A", "B", "C", "D", "E", "F", "G", "H", "I", "J", "K", "L", "M",
               "N", "O", "P", "Q", "R", "S", "T", "U", "V", "W", "X", "Y", "Z">>
LowerCase == <<"a", "b", "c", "d", "e", "f", "g", "h", "i", "j", "k", "l", "m",
               "n", "o", "p", "q", "r", "s", "t", "u", "v", "w", "x", "y", "z">>
LowerChar(c) ==
    IF \E k \in 1..Len(UpperCase) : UpperCase[k] = c
    THEN LowerCase[CHOOSE k \in 1..Len(UpperCase) : UpperCase[k] = c]
    ELSE c
Lower(cs) == [k \in 1..Len(cs) |-> LowerChar(cs[k])]

\* float(x) < float(y)
FloatLess(x, y) == x.n * y.d < y.n * x.d
\* mutant of FloatEq: the two numbers are compared as texts
FloatEqAsText(x, y) == Chars(x) = Chars(y)
\* float(x) == float(y)
FloatEq(x, y) == x.n * y.d = y.n * x.d

\* the comparison of the two resolved operands
Compare(lhs, operator, rhs) ==
    IF ~lhs.ok THEN CondFailed(lhs.err)
    ELSE IF ~rhs.ok THEN CondFailed(rhs.err)
    ELSE IF FloatOk(lhs.v) /\ FloatOk(rhs.v)
    THEN CASE operator = "=" -> CondIs(FloatEq(lhs.v, rhs.v))
           [] operator = "X=" -> CondIs(~FloatEq(lhs.v, rhs.v))
           [] operator = ">" -> CondIs(FloatLess(rhs.v, lhs.v))
           [] operator = "<" -> CondIs(FloatLess(lhs.v, rhs.v))
           [] operator = ">=" -> CondIs(~FloatLess(lhs.v, rhs.v))
           [] operator = "<=" -> CondIs(~FloatLess(rhs.v, lhs.v))
           [] operator \in {"~", "~="} ->
                CondFailed("Invalid operator for numeric comparison")
           [] OTHER -> CondFailed("Unknown numeric operator")
    ELSE CASE operator = "=" -> CondIs(Chars(lhs.v) = Chars(rhs.v))
           [] operator = "X=" -> CondIs(Chars(lhs.v) # Chars(rhs.v))
           [] operator = "~" -> CondIs(Contains(Chars(lhs.v), Chars(rhs.v)))
           [] operator = "~=" ->
                CondIs(Contains(Lower(Chars(lhs.v)), Lower(Chars(rhs.v))))
           [] operator \in {">", "<", ">=", "<="} ->
                CondFailed("Invalid operator for string comparison")
           [] OTHER -> CondFailed("Unknown string operator")

evaluate_condition(lhs_token, operator, rhs_token, input_val, store) ==
    Compare(resolve_value(lhs_token, input_val, store), operator,
            resolve_value(rhs_token, input_val, store))

(***************************************************************************)
(* execute_line.  The result says how the call ends: "ok" (it returns),    *)
(* "error" (error() exits with status 1), "exit" (sys.exit(0)), "crash"    *)
(* (an exception nothing catches) or "call" (it calls run_function and     *)
(* returns what that returns), with the store, the input value, the output *)
(* and the unread typed lines it leaves.                                   *)
(***************************************************************************)
Eff(res, store, iv, o, inp, msg) ==
    [res |-> res, store |-> store, iv |-> iv, out |-> o, stdin |-> inp, msg |-> msg]

IsIdentifier(w) == w \notin {"", "1", "9lives"}

\* %alias = varname
ExecAlias(st, iv, store, o, inp) ==
    IF ~IsIdentifier(st.a.w) \/ ~IsIdentifier(st.nm)
    THEN Eff("error", store, iv, o, inp, "Bad variable declaration")
    ELSE IF st.nm \in DOMAIN store
    THEN Eff("error", store, iv, o, inp, "already declared")
    ELSE Eff("ok",
             [n \in DOMAIN store \cup {st.nm} |->
                IF n = st.nm THEN [alias |-> st.a.w, type |-> "None", value |-> PyNone]
                ELSE store[n]],
             iv, o, inp, "")

\* varname = %int|%dec|%txt|%string
ExecType(st, iv, store, o, inp) ==
    IF st.nm \notin DOMAIN store
    THEN Eff("error", store, iv, o, inp, "Bad variable declaration")
    ELSE Eff("ok", [store EXCEPT ![st.nm].type = st.op], iv, o, inp, "")

\* the conversion of an accepted value to the declared type
Convert(vartype, val) ==
    CASE vartype = "%int" -> PyInt(val.n)
      [] vartype = "%dec" -> ToFloat(val)
      [] OTHER -> val

\* mutant of AssignValue: the value is stored before it is validated
AssignValueStoresFirst(st, iv, store, o, inp, val) ==
    LET vartype == store[st.nm].type
    IN  IF ~val.ok THEN Eff("error", store, iv, o, inp, val.err)
        ELSE IF ~validate_variable_type(vartype, val.v)
        THEN Eff("error", [store EXCEPT ![st.nm].value = val.v], iv, o, inp,
                 "Type mismatch")
        ELSE Eff("ok", [store EXCEPT ![st.nm].value = Convert(vartype, val.v)],
                 iv, o, inp, "")

\* the validation, conversion and storing of the resolved value val
AssignValue(st, iv, store, o, inp, val) ==
    LET vartype == store[st.nm].type
    IN  IF ~val.ok THEN Eff("error", store, iv, o, inp, val.err)
        ELSE IF ~validate_variable_type(vartype, val.v)
        THEN Eff("error", store, iv, o, inp, "Type mismatch")
        ELSE Eff("ok", [store EXCEPT ![st.nm].value = Convert(vartype, val.v)],
                 iv, o, inp, "")

\* varname%value = value
ExecAssign(st, iv, store, o, inp) ==
    IF st.nm \notin DOMAIN store
    THEN Eff("error", store, iv, o, inp, "not declared")
    ELSE AssignValue(st, iv, store, o, inp, resolve_value(st.b, iv, store))

\* %icq "Prompt" %type: input() reads the next typed line, EOFError if none
ExecIcq(st, iv, store, o, inp) ==
    IF inp = <<>> THEN Eff("crash", store, iv, o, inp, "EOFError")
    ELSE IF ~validate_variable_type(st.op, Head(inp))
    THEN Eff("error", store, iv, o, Tail(inp), "Input type mismatch for icq")
    ELSE Eff("ok", store, Head(inp), o, Tail(inp), "")

\* re.findall(r'"[^"]*"|(?:\S+)', ...): a quoted span is one token, any other
\* text is cut at its spaces, so `%var X` and `a + b` are several tokens
RECURSIVE Tokenize(_)
Tokenize(toks) ==
    IF toks = <<>> THEN <<>>
    ELSE LET t == Head(toks)
         IN  CASE t.t = "pvar" /\ t.w # "" ->
                    <<BarePVar, Word(t.w)>> \o Tokenize(Tail(toks))
               [] t.t = "arith" ->
                    Tokenize(<<t.l>>) \o <<Word(t.w)>> \o Tokenize(<<t.r>>)
                    \o Tokenize(Tail(toks))
               [] OTHER -> <<t>> \o Tokenize(Tail(toks))

\* the output_parts of a write, or the first error of a token
RECURSIVE WriteParts(_, _, _, _)
\* output_parts.append(resolve_value(t, ...)), and on to the next token
AppendResolved(r, rest, iv, store, parts) ==
    IF r.ok THEN WriteParts(rest, iv, store, Append(parts, r.v))
    ELSE [ok |-> FALSE, parts |-> parts, err |-> r.err]

WriteParts(toks, iv, store, parts) ==
    IF toks = <<>> THEN [ok |-> TRUE, parts |-> parts, err |-> ""]
    ELSE IF Head(toks).t = "color"
    THEN WriteParts(Tail(toks), iv, store, Append(parts, COLOR_CODES(Head(toks).w)))
    ELSE IF Head(toks).t = "nl"
    THEN WriteParts(Tail(toks), iv, store, Append(parts, Newline))
    ELSE AppendResolved(resolve_value(Head(toks), iv, store), Tail(toks),
                        iv, store, parts)

\* the reset appended unless the last part is a colour code, and the print
EmitParts(w, iv, store, o, inp) ==
    IF ~w.ok THEN Eff("error", store, iv, o, inp, w.err)
    ELSE IF w.parts = <<>> \/ w.parts[Len(w.parts)] \notin ColorValues
    THEN Eff("ok", store, iv, o \o Append(w.parts, COLOR_CODES("%normal")), inp, "")
    ELSE Eff("ok", store, iv, o \o w.parts, inp, "")

\* write ...
ExecWrite(st, iv, store, o, inp) ==
    EmitParts(WriteParts(Tokenize(st.toks), iv, store, <<>>), iv, store, o, inp)

\* what print() writes when no toast module is there, and what clear writes
NotificationSkipped == TxtStr("[Notification skipped: No toast module installed]")
ClearScreen == TxtStr("<clear>")

\* the title and the subtitle are resolved, then the toast is shown (the
\* notification is the desktop's, it leaves nothing in the interpreter)
ToastAfter(title_val, subtitle_val, iv, store, o, inp) ==
    IF ~title_val.ok THEN Eff("error", store, iv, o, inp, title_val.err)
    ELSE IF ~subtitle_val.ok THEN Eff("error", store, iv, o, inp, subtitle_val.err)
    ELSE Eff("ok", store, iv, o, inp, "")

\* mutant of ExecMsg: the skipped notification returns nothing
ExecMsgReturnsNone(st, iv, store, o, inp) ==
    IF ~HAVE_TOAST
    THEN Eff("ok", store, TxtStr("None"), o \o <<NotificationSkipped, Newline>>, inp, "")
    ELSE IF st.k # "msg" THEN Eff("error", store, iv, o, inp, "Bad msg syntax")
    ELSE ToastAfter(resolve_value(st.a, iv, store), resolve_value(st.b, iv, store),
                    iv, store, o, inp)

\* msg %title ... %subtitle ...
ExecMsg(st, iv, store, o, inp) ==
    IF ~HAVE_TOAST
    THEN Eff("ok", store, iv, o \o <<NotificationSkipped, Newline>>, inp, "")
    ELSE IF st.k # "msg" THEN Eff("error", store, iv, o, inp, "Bad msg syntax")
    ELSE ToastAfter(resolve_value(st.a, iv, store), resolve_value(st.b, iv, store),
                    iv, store, o, inp)

\* float() of the resolved delay, then the sleep and the clear
ClearAfter(resolved_delay_val, iv, store, o, inp) ==
    IF ~resolved_delay_val.ok THEN Eff("error", store, iv, o, inp, resolved_delay_val.err)
    ELSE IF ~FloatOk(resolved_delay_val.v)
    THEN Eff("error", store, iv, o, inp, "Invalid delay time for 'clear_console'")
    ELSE Eff("ok", store, iv, Append(o, ClearScreen), inp, "")

\* clear_console [delay]
ExecClear(st, iv, store, o, inp) ==
    IF st.b = NoTok THEN Eff("ok", store, iv, Append(o, ClearScreen), inp, "")
    ELSE ClearAfter(resolve_value(st.b, iv, store), iv, store, o, inp)

\* wait seconds: float() of the raw second word
ExecWait(st, iv, store, o, inp) ==
    IF st.k # "wait" THEN Eff("error", store, iv, o, inp, "Bad wait syntax")
    ELSE IF st.b.t = "num" /\ st.b.v.n >= 0
    THEN Eff("ok", store, iv, o, inp, "")
    ELSE Eff("error", store, iv, o, inp, "Invalid wait time")

\* mutant of ExecSentinel: the sentinel only returns to the caller
ExecSentinelReturns(st, iv, store, o, inp) == Eff("ok", store, iv, o, inp, "")

\* the terminator sentinel: sys.exit(0)
ExecSentinel(st, iv, store, o, inp) == Eff("exit", store, iv, o, inp, "")

\* line.startswith(kw), for a line that is one bare name
NameStartsWith(nm, kw) == StartsWith(Spell(nm), Spell(kw))

\* the tokens of line[len("write"):] for a bare name that starts with write
RestOfWrite(nm) ==
    CASE nm = "writer" -> <<Word("r")>>
      [] OTHER -> <<>>

\* a line that is one bare name meets the tests of write, msg, wait and
\* clear_console on the start of its text before `line in functions` (a
\* bare name holds no %NL%, so the test of send fails on it)
ExecName(st, iv, store, funs, o, inp) ==
    IF NameStartsWith(st.nm, "write")
    THEN ExecWrite([st EXCEPT !.toks = RestOfWrite(st.nm)], iv, store, o, inp)
    ELSE IF NameStartsWith(st.nm, "msg") THEN ExecMsg(st, iv, store, o, inp)
    ELSE IF NameStartsWith(st.nm, "wait") THEN ExecWait(st, iv, store, o, inp)
    ELSE IF NameStartsWith(st.nm, "clear_console") THEN ExecClear(st, iv, store, o, inp)
    ELSE IF st.nm \in DOMAIN funs THEN Eff("call", store, iv, o, inp, "")
    ELSE Eff("error", store, iv, o, inp, "Unknown command")

execute_line(st, iv, store, funs, o, inp) ==
    CASE st.k \in {"comment2", "comment", "blank"} -> Eff("ok", store, iv, o, inp, "")
      [] st.k = "alias" -> ExecAlias(st, iv, store, o, inp)
      [] st.k = "type" -> ExecType(st, iv, store, o, inp)
      [] st.k = "assign" -> ExecAssign(st, iv, store, o, inp)
      [] st.k = "icq" -> ExecIcq(st, iv, store, o, inp)
      [] StartsWithIf(st) \/ IsElse(st) ->
            Eff("error", store, iv, o, inp, "Direct %if or %else line execution not allowed")
      [] StartsWithWhile(st) ->
            Eff("error", store, iv, o, inp, "Direct %while line execution not allowed")
      [] st.k = "write" -> ExecWrite(st, iv, store, o, inp)
      [] st.k = "send" -> Eff("ok", store, iv, Append(o, Newline), inp, "")
      [] st.k \in {"msg", "badmsg"} -> ExecMsg(st, iv, store, o, inp)
      [] st.k = "wait" -> ExecWait(st, iv, store, o, inp)
      [] st.k = "clear_console" -> ExecClear(st, iv, store, o, inp)
      [] st.k = "name" -> ExecName(st, iv, store, funs, o, inp)
      [] st.k = "exit" -> ExecSentinel(st, iv, store, o, inp)
      [] OTHER -> Eff("error", store, iv, o, inp, "Unknown command")

(***************************************************************************)
(* The call stack.  A frame is one activation of main, run_function,       *)
(* execute_if_else or execute_while_loop with its local variables:         *)
(*   ref     the list it walks: "<main>" is parsed_lines, else a function  *)
(*   i       i of main and run_function, idx of execute_if_else           *)
(*   start   start_idx                                                     *)
(*   depth   depth                                                         *)
(*   taken   executed_a_branch_in_this_chain                               *)
(*   ph      where the activation is: "loop" at the head of its loop,      *)
(*           "body" inside a block, "auto" / "finish" around Main          *)
(*   cur     current_block_idx                                             *)
(*   bstart, bend   block_start, block_end                                 *)
(*   count   loop_count                                                    *)
(*   iv      input_val                                                     *)
(* Indices are Python's: lines[j] is ls[j + 1].                            *)
(***************************************************************************)
Frame(fn, ref, start, depth, bstart, bend, iv) ==
    [fn |-> fn, ref |-> ref, i |-> start, start |-> start, depth |-> depth,
     taken |-> FALSE, ph |-> "loop", cur |-> bstart, bstart |-> bstart,
     bend |-> bend, count |-> 0, iv |-> iv]

MainRef == "<main>"
LinesOf(ref) == IF ref = MainRef THEN parsed ELSE functions[ref]
Top == stack[Len(stack)]
Below == SubSeq(stack, 1, Len(stack) - 1)
ReplaceTop(fr) == Append(Below, fr)

\* the index a frame is at when it hands a line to an executor
Cursor(fr) == IF fr.fn \in {"main", "run_function"} THEN fr.i ELSE fr.cur

\* `i, input_val = execute_...(...)` and `input_val = execute_line(...); i += 1`
SetCursor(fr, pos, iv) ==
    IF fr.fn \in {"main", "run_function"}
    THEN [fr EXCEPT !.i = pos, !.iv = iv]
    ELSE [fr EXCEPT !.cur = pos, !.iv = iv]

\* mutant of ReturnFromFunction: the value run_function returns is dropped
ReturnFromFunctionDropsInput(caller, ret) ==
    IF caller.ph = "auto"
    THEN [caller EXCEPT !.ph = "finish"]
    ELSE SetCursor(caller, Cursor(caller) + 1, caller.iv)

\* what the caller of run_function does with the value it returns
ReturnFromFunction(caller, ret) ==
    IF caller.ph = "auto"
    THEN [caller EXCEPT !.ph = "finish", !.iv = ret]
    ELSE SetCursor(caller, Cursor(caller) + 1, ret)

\* what the caller of execute_if_else / execute_while_loop does with the pair
ReturnFromBlock(caller, idx, ret) == SetCursor(caller, idx, ret)

Frozen ==
    UNCHANGED <<script, argInput, argStdin, pc, parsed, functions, phase, first, unit,
                HAVE_TOAST>>
History == UNCHANGED <<execCount, lastInput, icqDepth>>

\* the run goes on
Go(stk, store, o, inp) ==
    /\ stack' = stk
    /\ variables' = store
    /\ out' = o
    /\ stdin' = inp
    /\ UNCHANGED <<status, errmsg, errln>>

\* the process ends inside the current activation
Halt(how, msg, ln, store, o, inp) ==
    /\ status' = how
    /\ errmsg' = msg
    /\ errln' = ln
    /\ variables' = store
    /\ out' = o
    /\ stdin' = inp
    /\ UNCHANGED stack

Fatal(msg, ln) == Halt("error", msg, ln, variables, out, stdin)

\* a Python call: one more activation, or RecursionError
Call(fr) ==
    IF Len(stack) >= MaxStack
    THEN Halt("crash", "RecursionError", 0, variables, out, stdin)
    ELSE Go(Append(stack, fr), variables, out, stdin)

\* how execute_line's outcome continues in the frame that called it
AfterLine(e, line, j) ==
    CASE e.res = "ok" -> Go(ReplaceTop(SetCursor(Top, j + 1, e.iv)), e.store, e.out, e.stdin)
      [] e.res = "call" ->
            Call(Frame("run_function", line.st.nm, 0, 0, 0, 0, e.iv))
      [] e.res = "exit" -> Halt("exit0", "", 0, e.store, e.out, e.stdin)
      [] e.res = "crash" -> Halt("crash", e.msg, 0, e.store, e.out, e.stdin)
      [] OTHER -> Halt("error", e.msg, line.ln, e.store, e.out, e.stdin)

\* input_val = execute_line(line, line_num, input_val), e its outcome
RunLine(e, line, j) ==
    /\ AfterLine(e, line, j)
    /\ execCount' = [execCount EXCEPT ![line.ln] = @ + 1]
    /\ IF line.st.k = "icq" /\ e.res = "ok"
       THEN lastInput' = e.iv /\ icqDepth' = Len(stack)
       ELSE UNCHANGED <<lastInput, icqDepth>>

(***************************************************************************)
(* The dispatch every walker of a line list does on the line at index j:   *)
(* a line that starts with %if or is %else goes to execute_if_else, one    *)
(* that starts with %while to execute_while_loop, any other to             *)
(* execute_line.  d is the depth handed to the executor.                   *)
(***************************************************************************)
Dispatch(j, d) ==
    LET ls == LinesOf(Top.ref)
        line == ls[j + 1]
        st == line.st
    IN  IF StartsWithIf(st) \/ IsElse(st)
        THEN /\ IF d >= MAX_DEPTH
                THEN Fatal("%if has too much depth", line.ln)
                ELSE Call(Frame("execute_if_else", Top.ref, j, d, 0, 0, Top.iv))
             /\ History
        ELSE IF StartsWithWhile(st)
        THEN /\ IF d >= MAX_DEPTH
                THEN Fatal("%while has too much depth", line.ln)
                ELSE IF st.k # "while"
                THEN Fatal("Bad %while syntax", line.ln)
                ELSE Call(Frame("execute_while_loop", Top.ref, j, d,
                                j + 1, find_block(ls, j + 1), Top.iv))
             /\ History
        ELSE RunLine(execute_line(st, Top.iv, variables, functions, out, stdin),
                     line, j)

(***************************************************************************)
(* main                                                                    *)
(***************************************************************************)
Running == pc = "run" /\ status = "running"

\* parse_script(lines), then i = 0, input_val = args.input
Main_Parse ==
    /\ pc = "init"
    /\ LET p == parse_script(script)
       IN  /\ parsed' = p.parsed
           /\ functions' = p.functions
    /\ pc' = "run"
    /\ stack' = <<Frame("main", MainRef, 0, 0, 0, 0, argInput)>>
    /\ UNCHANGED <<script, argInput, argStdin, variables, status, errmsg, errln,
                   out, stdin, phase, first, unit, HAVE_TOAST>>
    /\ History

\* one turn of `while i < total` of main
Main_Step ==
    /\ Running
    /\ Top.fn = "main"
    /\ Top.ph = "loop"
    /\ Top.i < Len(parsed)
    /\ Dispatch(Top.i, 0)
    /\ Frozen

\* after the main lines: run_function("Main", input_val) if Main is defined
Main_AutoRun ==
    /\ Running
    /\ Top.fn = "main"
    /\ Top.ph = "loop"
    /\ Top.i >= Len(parsed)
    /\ "Main" \in DOMAIN functions
    /\ Go(Append(ReplaceTop([Top EXCEPT !.ph = "auto"]),
                 Frame("run_function", "Main", 0, 0, 0, 0, Top.iv)),
          variables, out, stdin)
    /\ Frozen
    /\ History

\* print("Script finished."), and the process ends with status 0
Main_Finish ==
    /\ Running
    /\ Top.fn = "main"
    /\ Top.i >= Len(parsed)
    /\ Top.ph = (IF "Main" \in DOMAIN functions THEN "finish" ELSE "loop")
    /\ status' = "done"
    /\ UNCHANGED <<stack, variables, out, stdin, errmsg, errln>>
    /\ Frozen
    /\ History

(***************************************************************************)
(* run_function                                                            *)
(***************************************************************************)
\* one turn of `while i < total`
RunFunction_Step ==
    /\ Running
    /\ Top.fn = "run_function"
    /\ Top.i < Len(LinesOf(Top.ref))
    /\ Dispatch(Top.i, 0)
    /\ Frozen

\* return input_val
RunFunction_Return ==
    /\ Running
    /\ Top.fn = "run_function"
    /\ Top.i >= Len(LinesOf(Top.ref))
    /\ Go(Append(SubSeq(stack, 1, Len(stack) - 2),
                 ReturnFromFunction(stack[Len(stack) - 1], Top.iv)),
          variables, out, stdin)
    /\ Frozen
    /\ History

(***************************************************************************)
(* execute_if_else                                                         *)
(***************************************************************************)
\* return idx, input_val
ReturnBlock(idx, iv) ==
    Go(Append(SubSeq(stack, 1, Len(stack) - 2),
              ReturnFromBlock(stack[Len(stack) - 1], idx, iv)),
       variables, out, stdin)

\* the block of the header at idx starts to run
EnterBody(f, idx, ls) ==
    Go(ReplaceTop([f EXCEPT !.ph = "body", !.cur = idx + 1,
                            !.bstart = idx + 1, !.bend = find_block(ls, idx + 1)]),
       variables, out, stdin)

\* idx = block_end
SkipBlock(f, idx, ls) ==
    Go(ReplaceTop([f EXCEPT !.i = find_block(ls, idx + 1)]), variables, out, stdin)

\* `if cond:` ... `else:` of an %if header whose condition gave cond
Branch(cond, f, idx, ls) ==
    IF ~cond.ok THEN Fatal(cond.err, ls[idx + 1].ln)
    ELSE IF cond.b THEN EnterBody(f, idx, ls)
    ELSE SkipBlock(f, idx, ls)

\* one turn of `while idx < total`, up to the start of a branch's block
IfElse_Scan ==
    /\ Running
    /\ Top.fn = "execute_if_else"
    /\ Top.ph = "loop"
    /\ LET f == Top
           ls == LinesOf(f.ref)
           idx == f.i
           initial_indent == get_indent_level(ls[f.start + 1])
       IN  IF idx >= Len(ls) THEN ReturnBlock(idx, f.iv)
           ELSE LET line == ls[idx + 1]
                    st == line.st
                IN  IF st.k = "blank"
                       \/ (get_indent_level(line) < initial_indent /\ idx > f.start)
                    THEN ReturnBlock(idx, f.iv)
                    ELSE IF st.k = "if"
                    THEN IF f.taken THEN SkipBlock(f, idx, ls)
                         ELSE Branch(evaluate_condition(st.a, st.op, st.b,
                                                        f.iv, variables),
                                     f, idx, ls)
                    ELSE IF st.k = "else"
                    THEN IF f.taken THEN SkipBlock(f, idx, ls)
                         ELSE EnterBody(f, idx, ls)
                    ELSE ReturnBlock(idx, f.iv)
    /\ Frozen
    /\ History

\* one turn of `while current_block_idx < block_end` of a branch
IfElse_Body ==
    /\ Running
    /\ Top.fn = "execute_if_else"
    /\ Top.ph = "body"
    /\ Top.cur < Top.bend
    /\ Dispatch(Top.cur, Top.depth + 1)
    /\ Frozen

\* the branch's block is done: executed_a_branch_in_this_chain = True; idx = block_end
IfElse_BodyEnd ==
    /\ Running
    /\ Top.fn = "execute_if_else"
    /\ Top.ph = "body"
    /\ Top.cur >= Top.bend
    /\ Go(ReplaceTop([Top EXCEPT !.taken = TRUE, !.i = Top.bend, !.ph = "loop"]),
          variables, out, stdin)
    /\ Frozen
    /\ History

(***************************************************************************)
(* execute_while_loop                                                      *)
(***************************************************************************)
\* mutant of OverLimit: the ceiling is checked with >=
OverLimitOffByOne(loop_count) == loop_count >= MAX_LOOP_ITERATIONS

\* loop_count > MAX_LOOP_ITERATIONS
OverLimit(loop_count) == loop_count > MAX_LOOP_ITERATIONS

\* `if not cond_result: break`, else the body once more
Iterate(cond, f, line, loop_count) ==
    IF ~cond.ok THEN Fatal(cond.err, line.ln)
    ELSE IF ~cond.b THEN ReturnBlock(f.bend, f.iv)
    ELSE Go(ReplaceTop([f EXCEPT !.count = loop_count, !.ph = "body",
                                 !.cur = f.bstart]),
            variables, out, stdin)

\* the head of `while True`: count, check the ceiling, evaluate the condition
While_Iter ==
    /\ Running
    /\ Top.fn = "execute_while_loop"
    /\ Top.ph = "loop"
    /\ LET f == Top
           ls == LinesOf(f.ref)
           line == ls[f.start + 1]
           loop_count == f.count + 1
       IN  IF OverLimit(loop_count)
           THEN /\ status' = "error"
                /\ errmsg' = "Infinite loop detected"
                /\ errln' = line.ln
                /\ stack' = ReplaceTop([f EXCEPT !.count = loop_count])
                /\ UNCHANGED <<variables, out, stdin>>
           ELSE Iterate(evaluate_condition(line.st.a, line.st.op, line.st.b,
                                           f.iv, variables),
                        f, line, loop_count)
    /\ Frozen
    /\ History

\* one turn of `while current_block_idx < block_end` of the loop body
While_Body ==
    /\ Running
    /\ Top.fn = "execute_while_loop"
    /\ Top.ph = "body"
    /\ Top.cur < Top.bend
    /\ Dispatch(Top.cur, Top.depth + 1)
    /\ Frozen

\* the body is done: back to the head of `while True`
While_BodyEnd ==
    /\ Running
    /\ Top.fn = "execute_while_loop"
    /\ Top.ph = "body"
    /\ Top.cur >= Top.bend
    /\ Go(ReplaceTop([Top EXCEPT !.ph = "loop"]), variables, out, stdin)
    /\ Frozen
    /\ History

(***************************************************************************)
(* The scripts the model runs.                                             *)
(***************************************************************************)
Say(s) == SWrite(<<Quoted(TxtStr(s))>>)
IfTrue == SIf(Num(1), "=", Num(1))
IfIs(b) == SIf(Num(1), "=", IF b THEN Num(1) ELSE Num(2))
WhileTrue == SWhile(Num(1), "=", Num(1))
Increment(nm) == SAssign(nm, Arith(Word(nm), "+", Num(1)))

\* %if c1 / a / %if c2 / b / %else / c / end, the bodies indented
ChainScript(c1, c2) ==
    << Raw(0, IfIs(c1)), Raw(4, Say("a")),
       Raw(0, IfIs(c2)), Raw(4, Say("b")),
       Raw(0, SElse), Raw(4, Say("c")),
       Raw(0, Say("end")) >>

\* Count declared of type ty, set to 0, and `%while Count < n` incrementing it
CountLoop(ty, n) ==
    << Raw(0, SAlias("c", "Count")), Raw(0, SType("Count", ty)),
       Raw(0, SAssign("Count", Num(0))),
       Raw(0, SWhile(Word("Count"), "<", Num(n))),
       Raw(4, Increment("Count")) >>

\* the counting loop in a branch of Main
CountLoopInMain(ty, n) ==
    << Raw(0, SFunc("Main")),
       Raw(4, SAlias("c", "Count")), Raw(4, SType("Count", ty)),
       Raw(4, SAssign("Count", Num(0))),
       Raw(4, IfTrue),
       Raw(8, SWhile(Word("Count"), "<", Num(n))),
       Raw(12, Increment("Count")) >>
\* the counting loops whose condition is true as often as the ceiling allows
\* and once less, at top level and in Main
CeilingScripts ==
    {CountLoop("%dec", n) : n \in {MAX_LOOP_ITERATIONS - 1, MAX_LOOP_ITERATIONS}}
    \cup {CountLoopInMain("%dec", n) : n \in {MAX_LOOP_ITERATIONS - 1, MAX_LOOP_ITERATIONS}}

\* `%while 1 = 1` over a body without effect, at top level and in Main
ForeverTop == << Raw(0, WhileTrue), Raw(4, SWait(0)) >>
ForeverInMain == << Raw(0, SFunc("Main")), Raw(4, WhileTrue), Raw(8, SWait(0)) >>

\* malformed headers
BadIfTop == << Raw(0, Say("a")), Raw(0, SBadIf), Raw(4, Say("b")) >>
BadIfInFunction == << Raw(0, SFunc("Foo")), Raw(4, SBadIf), Raw(0, SName("Foo")) >>
BadIfInIf == << Raw(0, IfTrue), Raw(4, SBadIf) >>
BadIfInWhile == << Raw(0, WhileTrue), Raw(4, SBadIf) >>
BadWhileTop == << Raw(0, SBadWhile), Raw(4, Say("a")) >>

\* a subroutine that invokes itself
SelfCall == << Raw(0, SFunc("Foo")), Raw(4, SName("Foo")), Raw(0, SName("Foo")) >>

\* k true %if headers one after the other, none inside another
FlatIfs(k) ==
    [j \in 1..(2 * k) |-> IF j % 2 = 1 THEN Raw(0, IfTrue) ELSE Raw(4, SWait(0))]
\* k true %if headers, each inside the one before
NestedIfs(k) ==
    [j \in 1..(k + 1) |-> IF j <= k THEN Raw(4 * (j - 1), IfTrue) ELSE Raw(4 * k, SWait(0))]
\* k nested true %if headers around a %while whose condition is false
NestedIfsWhile(k) ==
    [j \in 1..(k + 2) |->
        IF j <= k THEN Raw(4 * (j - 1), IfTrue)
        ELSE IF j = k + 1 THEN Raw(4 * k, SWhile(Num(1), "=", Num(2)))
        ELSE Raw(4 * (k + 1), SWait(0))]

DepthScripts ==
    {FlatIfs(k) : k \in {MAX_DEPTH, MAX_DEPTH + 1}}
    \cup {NestedIfs(k) : k \in {MAX_DEPTH, MAX_DEPTH + 1}}
    \cup {NestedIfsWhile(k) : k \in {MAX_DEPTH - 1, MAX_DEPTH}}

\* every script of at most MaxStoreLen variable-store statements
StoreStatements ==
    { SAlias("x", "X"), SType("X", "%int"), SType("X", "%txt"), SType("X", "%dec"),
      SAssign("X", Num(5)), SAssign("X", Quoted(TxtStr("abc"))),
      Increment("X"), SWrite(<<Word("X")>>) }
RECURSIVE StmtSeqs(_)
StmtSeqs(n) ==
    IF n = 0 THEN {<<>>}
    ELSE LET shorter == StmtSeqs(n - 1)
         IN  shorter \cup {Append(q, st) : q \in {x \in shorter : Len(x) = n - 1},
                                             st \in StoreStatements}
StoreScripts ==
    {[j \in 1..Len(q) |-> Raw(0, q[j])] : q \in StmtSeqs(MaxStoreLen) \ {<<>>}}

\* X declared, typed, given a value, typed again and printed
RetypeScript(ty1, e, ty2) ==
    << Raw(0, SAlias("x", "X")), Raw(0, SType("X", ty1)), Raw(0, SAssign("X", e)),
       Raw(0, SType("X", ty2)), Raw(0, SWrite(<<Word("X")>>)) >>
DeclaredTypes == {"%int", "%dec", "%txt", "%string"}
RetypeScripts ==
    {RetypeScript(ty1, e, ty2) :
        ty1 \in DeclaredTypes, e \in {Num(5), Quoted(TxtStr("abc"))},
        ty2 \in DeclaredTypes}

\* X declared of type ty, set to n, incremented and printed
IncrementScript(ty, n) ==
    << Raw(0, SAlias("x", "X")), Raw(0, SType("X", ty)), Raw(0, SAssign("X", Num(n))),
       Raw(0, Increment("X")), Raw(0, SWrite(<<Word("X")>>)) >>
IncrementScripts == {IncrementScript(ty, n) : ty \in {"%int", "%dec"}, n \in 0..MaxN}

\* the input prompt inside a loop inside a branch inside a subroutine
AskScript(ty) ==
    << Raw(0, SFunc("Ask")),
       Raw(4, IfTrue),
       Raw(8, SWhile(InTok, "X=", Quoted(TxtStr("go")))),
       Raw(12, SIcq(ty)),
       Raw(0, SName("Ask")),
       Raw(0, SWrite(<<InTok>>)) >>
\* the input prompt at top level, then a subroutine that reads %1
AskTop == << Raw(0, SIcq("%txt")), Raw(0, SName("Show")),
             Raw(0, SFunc("Show")), Raw(4, SWrite(<<InTok>>)) >>
InputScripts == {AskScript("%txt"), AskScript("%int"), AskTop}

\* the terminator sentinel at top level, in nested blocks of a subroutine, in Main
ExitTop ==
    << Raw(0, Say("a")), Raw(0, SExit), Raw(0, Say("b")),
       Raw(0, SFunc("Main")), Raw(4, Say("m")) >>
ExitNested ==
    << Raw(0, SFunc("Foo")), Raw(4, WhileTrue), Raw(8, IfTrue),
       Raw(12, Say("x")), Raw(12, SExit), Raw(12, Say("y")),
       Raw(0, SName("Foo")), Raw(0, Say("after")),
       Raw(0, SFunc("Main")), Raw(4, Say("m")) >>
ExitInMain ==
    << Raw(0, Say("a")), Raw(0, SFunc("Main")), Raw(4, SExit), Raw(4, Say("m")) >>
NoExit ==
    << Raw(0, SComment), Raw(0, Say("a")), Raw(0, SBlank), Raw(0, SSend),
       Raw(0, SFunc("Main")), Raw(4, Say("m")) >>

\* the counting loop, then a statement at the indentation of the header
LoopThenAfter(n) ==
    << Raw(0, SAlias("c", "Count")), Raw(0, SType("Count", "%dec")),
       Raw(0, SAssign("Count", Num(0))),
       Raw(0, SWhile(Word("Count"), "<", Num(n))),
       Raw(4, Increment("Count")),
       Raw(0, Say("after")) >>
\* a branch, then a statement at the indentation of the header
IfThenAfter(c) == << Raw(0, IfIs(c)), Raw(4, Say("a")), Raw(0, Say("after")) >>
ExtentScripts ==
    {LoopThenAfter(n) : n \in 0..MaxN} \cup {IfThenAfter(c) : c \in BOOLEAN}

\* a chain whose first branch runs and whose later header names no variable
LaterHeaderFaulty ==
    << Raw(0, IfTrue), Raw(4, Say("a")),
       Raw(0, SIf(PVar("Nope"), "=", Num(1))), Raw(4, Say("b")),
       Raw(0, SElse), Raw(4, Say("c")) >>

\* every statement that is no prompt, in a subroutine, a branch and a loop
FrameScript ==
    << Raw(0, SFunc("Helper")), Raw(4, SWrite(<<InTok>>)),
       Raw(0, SFunc("Main")),
       Raw(4, SAlias("c", "Count")), Raw(4, SType("Count", "%dec")),
       Raw(4, SAssign("Count", Num(0))),
       Raw(4, SWrite(<<InTok>>)), Raw(4, SSend),
       Raw(4, SMsg(InTok, Quoted(TxtStr("a")))),
       Raw(4, SWait(0)), Raw(4, SClear(NoTok)), Raw(4, SName("Helper")),
       Raw(4, IfTrue),
       Raw(8, SWhile(Word("Count"), "<", Num(1))),
       Raw(12, Increment("Count")), Raw(12, SName("Helper")) >>
\* one msg or clear_console statement, then a write of the input value
NoticeStatements ==
    {SBadMsg, SMsg(PVar("Nope"), InTok), SMsg(InTok, PVar("Nope")),
     SMsg(Quoted(TxtStr("a")), InTok),
     SClear(Num(0)), SClear(InTok), SClear(Quoted(TxtStr("abc"))), SClear(PVar("Nope"))}
FrameScripts ==
    {FrameScript} \cup {<<Raw(0, st), Raw(0, SWrite(<<InTok>>))>> : st \in NoticeStatements}
HasMsg(lines) ==
    \E j \in 1..Len(lines) :
        \/ lines[j].st.k \in {"msg", "badmsg"}
        \/ lines[j].st.k = "name" /\ NameStartsWith(lines[j].st.nm, "msg")

\* a subroutine called nm, called once from the top level
NamedCallScript(nm) ==
    << Raw(0, SFunc(nm)), Raw(4, Say("a")),
       Raw(0, SName(nm)), Raw(0, Say("end")) >>
CallableNames == {"Foo", "send", "write", "writer", "msg", "wait", "clear_console"}
NamedCallScripts == {NamedCallScript(nm) : nm \in CallableNames}

\* a comment line c at top level and in a subroutine body, statements after it
CommentScript(c) ==
    << Raw(0, Say("a")), Raw(0, c), Raw(0, Say("b")), Raw(0, Say("c")),
       Raw(0, SFunc("Main")), Raw(4, c), Raw(4, Say("m")), Raw(4, Say("n")) >>
CommentScripts == {CommentScript(SComment), CommentScript(SComment2)}

\* one write statement, over every sequence of at most two of these tokens
WriteTokens ==
    { Quoted(TxtStr("a")), Quoted(TxtStr("50%")), Color("%redtext"), Color("%normal"),
      NLTok, InTok, PVar("Nope") }
WriteScripts ==
    {<<Raw(0, SWrite(<<>>))>>}
    \cup {<<Raw(0, SWrite(<<t>>))>> : t \in WriteTokens}
    \cup {<<Raw(0, SWrite(<<t, u>>))>> : t \in WriteTokens, u \in WriteTokens}

PlainScripts ==
    {ChainScript(c1, c2) : c1 \in BOOLEAN, c2 \in BOOLEAN}
    \cup {CountLoop(ty, n) : ty \in {"%int", "%dec"}, n \in 0..MaxN}
    \cup {ForeverTop, ForeverInMain}
    \cup {BadIfTop, BadIfInFunction, BadIfInIf, BadIfInWhile, BadWhileTop, SelfCall}
    \cup DepthScripts
    \cup StoreScripts
    \cup {ExitTop, ExitNested, ExitInMain, NoExit}
    \cup WriteScripts
    \cup CommentScripts
    \cup ExtentScripts
    \cup IncrementScripts
    \cup RetypeScripts
    \cup NamedCallScripts
    \cup {LaterHeaderFaulty}

Inputs == {TxtStr(""), TxtStr("go")}
TypedLines == {TxtStr("go"), TxtStr("no"), IntStr(7)}
Stdins == {<<>>} \cup {<<x>> : x \in TypedLines}
          \cup {<<x, y>> : x \in TypedLines, y \in TypedLines}

NoUnit == [fn |-> "none"]
NoOutcome == [status |-> "", errmsg |-> "", errln |-> 0, out |-> <<>>,
              variables |-> <<>>, iv |-> TxtStr("")]

\* the state of the process when main starts on the lines `lines`
Start(lines, input, typed) ==
    /\ script = lines
    /\ argInput = input
    /\ argStdin = typed
    /\ pc = "init"
    /\ parsed = <<>>
    /\ functions = <<>>
    /\ variables = <<>>
    /\ stack = <<>>
    /\ status = "running"
    /\ errmsg = ""
    /\ errln = 0
    /\ out = <<>>
    /\ stdin = typed
    /\ execCount = [j \in 1..Len(lines) |-> 0]
    /\ lastInput = input
    /\ icqDepth = 0
    /\ unit = NoUnit
    /\ HAVE_TOAST \in (IF HasMsg(lines) THEN BOOLEAN ELSE {FALSE})

Init ==
    /\ phase = 1
    /\ first = NoOutcome
    /\ \E lines \in PlainScripts \cup InputScripts \cup FrameScripts :
        \E input \in (IF lines \in InputScripts \cup FrameScripts
                      THEN Inputs ELSE {TxtStr("")}) :
          \E typed \in (IF lines \in InputScripts THEN Stdins ELSE {<<>>}) :
             Start(lines, input, typed)

Next ==
    \/ Main_Parse
    \/ Main_Step
    \/ Main_AutoRun
    \/ Main_Finish
    \/ RunFunction_Step
    \/ RunFunction_Return
    \/ IfElse_Scan
    \/ IfElse_Body
    \/ IfElse_BodyEnd
    \/ While_Iter
    \/ While_Body
    \/ While_BodyEnd

Spec == Init /\ [][Next]_vars

\* the interpreter is one sequential process: a step that can be taken is taken
FairSpec == Spec /\ WF_vars(Next)

(***************************************************************************)
(* Vocabulary of the properties.                                           *)
(***************************************************************************)
\* the top activation is about to hand the line at its cursor to an executor
AtDispatch ==
    /\ Running
    /\ stack # <<>>
    /\ IF Top.fn \in {"main", "run_function"}
       THEN Top.ph = "loop" /\ Top.i < Len(LinesOf(Top.ref))
       ELSE Top.ph = "body" /\ Top.cur < Top.bend
CurrentLine == LinesOf(Top.ref)[Cursor(Top) + 1]
Terminated == status # "running"

\* the headers of the file that enclose line j by indentation
IsHeader(raw) == raw.st.k \in {"if", "badif", "else", "while", "badwhile"}
Encloses(lines, h, j) ==
    /\ h < j
    /\ IsHeader(lines[h])
    /\ \A m \in (h + 1)..j : lines[m].ind > lines[h].ind
\* how deep the control-flow headers of the file are nested in one another
SourceNesting(lines) ==
    LET levels == {Cardinality({h \in 1..Len(lines) : Encloses(lines, h, j)}) + 1 :
                     j \in {m \in 1..Len(lines) : IsHeader(lines[m])}}
    IN  IF levels = {} THEN 0 ELSE CHOOSE x \in levels : \A y \in levels : y <= x

(***************************************************************************)
(* C1.  In a chain `%if c1 / a / %if c2 / b / %else / c` of headers at the *)
(* same indentation, followed by a statement `end`, at most one branch     *)
(* body executes; when the run completes, the body that has executed once  *)
(* is that of the first true condition (or of %else), and `end`, the       *)
(* statement after the last block, has executed once.                      *)
(***************************************************************************)
C1_OneBranchOfChain ==
    \A c1 \in BOOLEAN, c2 \in BOOLEAN :
        script = ChainScript(c1, c2) =>
            /\ execCount[2] + execCount[4] + execCount[6] <= 1
            /\ status = "done" =>
                  /\ execCount[2] = (IF c1 THEN 1 ELSE 0)
                  /\ execCount[4] = (IF ~c1 /\ c2 THEN 1 ELSE 0)
                  /\ execCount[6] = (IF ~c1 /\ ~c2 THEN 1 ELSE 0)
                  /\ execCount[7] = 1

(***************************************************************************)
(* C2.  A loop `%while Count < n` whose body is `Count%value = Count + 1`, *)
(* Count declared and set to 0 before, does not fail, and when it has      *)
(* exited the body has executed exactly n times and Count is n.            *)
(***************************************************************************)
C2_CountingLoop ==
    \A ty \in {"%int", "%dec"}, n \in 0..MaxN :
        script = CountLoop(ty, n) =>
            /\ status \in {"running", "done"}
            /\ status = "done" =>
                  /\ execCount[5] = n
                  /\ variables["Count"].value.n = n

\* the same for a Count of type %dec alone
C2_CountingLoopDec ==
    \A n \in 0..MaxN :
        script = CountLoop("%dec", n) =>
            /\ status \in {"running", "done"}
            /\ status = "done" =>
                  /\ execCount[5] = n
                  /\ variables["Count"].value = PyFloat(n)

(***************************************************************************)
(* C3.  A `%while 1 = 1` loop over a body without effect executes its body *)
(* at most 10,000 times, ends only by the iteration-limit error, raised    *)
(* when loop_count is 10,001 and the body has run exactly 10,000 times,    *)
(* and does end.                                                           *)
(***************************************************************************)
ForeverBody == IF script = ForeverTop THEN 2 ELSE 3
C3_CeilingState ==
    script \in {ForeverTop, ForeverInMain} =>
        /\ execCount[ForeverBody] <= MAX_LOOP_ITERATIONS
        /\ status \in {"running", "error"}
        /\ status = "error" =>
              /\ errmsg = "Infinite loop detected"
              /\ execCount[ForeverBody] = MAX_LOOP_ITERATIONS
              /\ Top.count = MAX_LOOP_ITERATIONS + 1
C3_IterationCeiling ==
    /\ []C3_CeilingState
    /\ (script \in {ForeverTop, ForeverInMain}) => <>(status = "error")
C3_Witness ==
    /\ script = ForeverTop
    /\ status = "error"
    /\ errmsg = "Infinite loop detected"
    /\ execCount[2] = MAX_LOOP_ITERATIONS

(***************************************************************************)
(* C4.  Every run of the interpreter terminates.                           *)
(***************************************************************************)
C4_Termination == <>Terminated

(***************************************************************************)
(* C5.  Whenever a line that starts with %if but is no well-formed header  *)
(* is reached, by main, by run_function or inside a block, the run aborts  *)
(* with a failure status at that step.                                     *)
(***************************************************************************)
AtBadIf == AtDispatch /\ CurrentLine.st.k = "badif"
C5_MalformedIfIsFatal == [][AtBadIf => status' = "error"]_vars

(***************************************************************************)
(* C6.  The nesting-depth error is raised only in a script whose           *)
(* control-flow headers are nested more than 16 levels deep in its source. *)
(***************************************************************************)
DepthError == errmsg \in {"%if has too much depth", "%while has too much depth"}
C6_DepthCap == DepthError => SourceNesting(script) > MAX_DEPTH

(***************************************************************************)
(* C7.  A store statement that is at fault ends the run with a fatal error *)
(* and leaves the Variable Store as it was: an alias declaration of a name *)
(* already present, a type declaration or an assignment for a name never   *)
(* declared, an assignment to a variable without a type, an assignment of  *)
(* a value the declared type's validator rejects.                          *)
(***************************************************************************)
AtFaultyStoreStatement ==
    /\ AtDispatch
    /\ LET st == CurrentLine.st
       IN  \/ st.k = "alias" /\ st.nm \in DOMAIN variables
           \/ st.k \in {"type", "assign"} /\ st.nm \notin DOMAIN variables
           \/ /\ st.k = "assign"
              /\ st.nm \in DOMAIN variables
              /\ LET val == resolve_value(st.b, Top.iv, variables)
                 IN  \/ variables[st.nm].type = "None"
                     \/ val.ok /\ ~validate_variable_type(variables[st.nm].type, val.v)
C7_FaultyStoreStatementIsFatal ==
    [][AtFaultyStoreStatement => (status' = "error" /\ variables' = variables)]_vars
\* "abc" has been refused to a declared %int variable
C7_Witness ==
    /\ status = "error"
    /\ errmsg = "Type mismatch"
    /\ CurrentLine.st = SAssign("X", Quoted(TxtStr("abc")))
    /\ "X" \in DOMAIN variables
    /\ variables["X"].type = "%int"
    /\ variables["X"].value = PyNone

(***************************************************************************)
(* C8.  The activation that executes always holds the input value of the   *)
(* latest input prompt (the --input argument before any prompt), at every  *)
(* level of the call chain: what a prompt read inside a subroutine, a      *)
(* branch or a loop body is what the caller and the later loop conditions  *)
(* read as %1.                                                             *)
(***************************************************************************)
C8_InputPropagates == (pc = "run") => Top.iv = lastInput
\* the prompt ran inside a loop inside a branch inside a subroutine, and the
\* write of the caller printed what was typed
C8_Witness ==
    /\ script = AskScript("%txt")
    /\ argInput = TxtStr("")
    /\ icqDepth = 4
    /\ status = "done"
    /\ lastInput = TxtStr("go")
    /\ out # <<>>
    /\ out[1] = TxtStr("go")

(***************************************************************************)
(* C9.  The step that executes the terminator sentinel ends the run with   *)
(* status 0, in any context, and nothing happens after it: no statement    *)
(* executes, Main is not invoked.                                          *)
(***************************************************************************)
AtSentinel == AtDispatch /\ CurrentLine.st.k = "exit"
C9_SentinelStopsTheRun ==
    [][/\ AtSentinel => status' = "exit0"
       /\ status = "exit0" => UNCHANGED vars]_vars
\* the sentinel ran inside a branch inside a loop inside a subroutine: the
\* statements after it, after the call, and Main have not run
C9_Witness ==
    /\ script = ExitNested
    /\ status = "exit0"
    /\ Len(stack) = 4
    /\ execCount[4] = 1
    /\ execCount[5] = 1
    /\ execCount[6] = 0
    /\ execCount[8] = 0
    /\ execCount[10] = 0
    /\ "Main" \in DOMAIN functions

(***************************************************************************)
(* A script that defines one subroutine and calls it once, and the script  *)
(* with the call line replaced by the body lines.  The second run starts   *)
(* when the first has ended, on the same --input and the same typed lines. *)
(***************************************************************************)
\* %f name: / the body, indented / name
CallScript(name, body) ==
    <<Raw(0, SFunc(name))>>
    \o [j \in 1..Len(body) |-> Raw(body[j].ind + 4, body[j].st)]
    \o <<Raw(0, SName(name))>>

\* the lines of a CallScript with the call replaced by the body, not indented
Inlined(lines) ==
    SubSeq(lines, 1, Len(lines) - 1)
    \o [j \in 1..(Len(lines) - 2) |-> Raw(lines[j + 1].ind - 4, lines[j + 1].st)]

PlainBodies ==
    { << Raw(0, Say("a")) >>,
      << Raw(0, SAlias("x", "X")), Raw(0, SType("X", "%int")),
         Raw(0, SAssign("X", Num(5))), Raw(0, SWrite(<<Word("X")>>)) >>,
      << Raw(0, IfIs(FALSE)), Raw(4, Say("a")), Raw(0, SElse), Raw(4, Say("b")) >>,
      << Raw(0, IfTrue), Raw(4, Say("a")), Raw(0, SElse), Raw(4, Say("b")) >>,
      << Raw(0, SAlias("c", "Count")), Raw(0, SType("Count", "%dec")),
         Raw(0, SAssign("Count", Num(0))),
         Raw(0, SWhile(Word("Count"), "<", Num(2))),
         Raw(4, Increment("Count")), Raw(4, SWrite(<<Word("Count")>>)) >>,
      << Raw(0, Say("a")), Raw(0, SWrite(<<PVar("Nope")>>)) >>,
      << Raw(0, Say("a")), Raw(0, SExit), Raw(0, Say("b")) >>,
      << Raw(0, SSend), Raw(0, SBadWhile) >>,
      << Raw(0, SAlias("x", "X")), Raw(0, SType("X", "%int")),
         Raw(0, SAssign("X", Num(5))), Raw(0, Increment("X")) >> }
InputBodies ==
    { << Raw(0, SIcq("%txt")), Raw(0, SWrite(<<InTok>>)) >>,
      << Raw(0, SWhile(InTok, "X=", Quoted(TxtStr("go")))), Raw(4, SIcq("%int")) >>,
      << Raw(0, IfTrue), Raw(4, SWhile(InTok, "X=", Quoted(TxtStr("go")))),
         Raw(8, SIcq("%txt")) >> }
SubroutineNames == {"Foo", "Main"}

\* how a run has ended
Outcome ==
    [status |-> status, errmsg |-> errmsg, errln |-> errln, out |-> out,
     variables |-> variables, iv |-> Top.iv]

PairInit ==
    /\ phase = 1
    /\ first = NoOutcome
    /\ \E name \in SubroutineNames, body \in PlainBodies \cup InputBodies :
        \E input \in (IF body \in InputBodies THEN Inputs ELSE {TxtStr("")}) :
          \E typed \in (IF body \in InputBodies THEN Stdins ELSE {<<>>}) :
             Start(CallScript(name, body), input, typed)

\* the first run has ended: its outcome is kept and the inlined script starts
Restart ==
    /\ phase = 1
    /\ pc = "run"
    /\ Terminated
    /\ phase' = 2
    /\ first' = Outcome
    /\ script' = Inlined(script)
    /\ pc' = "init"
    /\ parsed' = <<>>
    /\ functions' = <<>>
    /\ variables' = <<>>
    /\ stack' = <<>>
    /\ status' = "running"
    /\ errmsg' = ""
    /\ errln' = 0
    /\ out' = <<>>
    /\ stdin' = argStdin
    /\ execCount' = [j \in 1..Len(Inlined(script)) |-> 0]
    /\ lastInput' = argInput
    /\ icqDepth' = 0
    /\ UNCHANGED <<argInput, argStdin, unit, HAVE_TOAST>>

PairNext == Next \/ Restart
PairSpec == PairInit /\ [][PairNext]_vars

Interp == <<script, argInput, argStdin, pc, parsed, functions, variables, stack,
            status, errmsg, errln, out, stdin, execCount, lastInput, icqDepth,
            phase, first, HAVE_TOAST>>

\* a store that holds Count with the value v of declared type ty
StoreOf(v, ty) == [nm \in {"Count"} |-> [alias |-> "c", type |-> ty, value |-> v]]
UnitStores ==
    { StoreOf(PyInt(4), "%int"), StoreOf(PyInt(0), "%int"),
      StoreOf(ToFloat(FracStr(1, 2)), "%dec"), StoreOf(TxtStr("abc"), "%txt"),
      StoreOf(PyNone, "%int") }
UnitInputs == {TxtStr(""), TxtStr("go"), IntStr(7)}

Operators == {"+", "-", "*", "/"}
\* the operands of an arithmetic text: Count, %var Count, %1, literals, and
\* a word that is no variable, an unknown variable, quoted literals
Operands ==
    { Word("Count"), PVar("Count"), InTok, Num(0), Num(1), Num(3), Num(0 - 2),
      Word("Nope"), PVar("Nope"), Quoted(IntStr(5)), Quoted(TxtStr("abc")) }
ArithTokens ==
    {Arith(l, op, r) : l \in Operands, op \in Operators, r \in Operands}
    \cup {Arith(Num(1), op, Arith(Num(3), op2, Word("Count"))) :
            op \in Operators, op2 \in Operators}
QuotedTokens ==
    { Quoted(TxtStr("abc")), Quoted(TxtStr("")), Quoted(IntStr(5)),
      Quoted(TxtStr("%1")), Quoted(TxtStr("Count")), Quoted(TxtStr("50%")) }

ResolveCalls ==
    {[fn |-> "resolve_value", done |-> FALSE, token |-> t, iv |-> iv, store |-> st,
      res |-> Failed("")] :
        t \in ArithTokens \cup Operands \cup {BarePVar}, iv \in UnitInputs,
        st \in UnitStores}

\* resolve_value(token, input_val, line_num) is called and returns or fails
Unit_resolve_value ==
    /\ unit.fn = "resolve_value"
    /\ ~unit.done
    /\ unit' = [unit EXCEPT !.done = TRUE,
                            !.res = resolve_value(unit.token, unit.iv, unit.store)]
    /\ UNCHANGED Interp

(***************************************************************************)
(* C11.  For a token `l op r`, op one of + - * /, whose operands are each  *)
(* a bare declared variable name, a `%var NAME` reference, %1 or a numeric *)
(* literal, and resolve on their own, resolve returns the float-formatted  *)
(* result of op on the operands' numeric values; it fails with the         *)
(* non-numeric-arithmetic error if a resolved operand is not numeric, and  *)
(* with the division-by-zero error if op is / and the right operand is     *)
(* zero.                                                                   *)
(***************************************************************************)
ClaimedOperand(tok, store) ==
    \/ tok.t = "word" /\ tok.w \in DOMAIN store
    \/ tok.t = "pvar" /\ tok.w # ""
    \/ tok.t = "in"
    \/ tok.t = "num"
\* r is the string of the float that op gives on the numbers a and b
IsResultOf(r, op, a, b) ==
    /\ r.form = "dec"
    /\ r.d >= 1
    /\ CASE op = "+" -> r.n * a.d * b.d = (a.n * b.d + b.n * a.d) * r.d
         [] op = "-" -> r.n * a.d * b.d = (a.n * b.d - b.n * a.d) * r.d
         [] op = "*" -> r.n * a.d * b.d = a.n * b.n * r.d
         [] OTHER -> r.n * a.d * b.n = a.n * b.d * r.d
C11_Arithmetic ==
    (/\ unit.fn = "resolve_value"
     /\ unit.done
     /\ unit.token.t = "arith"
     /\ ClaimedOperand(unit.token.l, unit.store)
     /\ ClaimedOperand(unit.token.r, unit.store)) =>
        LET a == resolve_value(unit.token.l, unit.iv, unit.store)
            b == resolve_value(unit.token.r, unit.iv, unit.store)
        IN  (a.ok /\ b.ok) =>
              IF ~(FloatOk(a.v) /\ FloatOk(b.v))
              THEN unit.res = Failed("Cannot perform arithmetic on non-numeric values")
              ELSE IF unit.token.w = "/" /\ b.v.n = 0
              THEN unit.res = Failed("Division by zero")
              ELSE unit.res.ok /\ IsResultOf(unit.res.v, unit.token.w, a.v, b.v)

\* the same, for a left operand that is not a `%var NAME` reference
C11_ArithmeticNoLeftPVar ==
    (/\ unit.fn = "resolve_value"
     /\ unit.done
     /\ unit.token.t = "arith"
     /\ unit.token.l.t # "pvar"
     /\ ClaimedOperand(unit.token.l, unit.store)
     /\ ClaimedOperand(unit.token.r, unit.store)) =>
        LET a == resolve_value(unit.token.l, unit.iv, unit.store)
            b == resolve_value(unit.token.r, unit.iv, unit.store)
        IN  (a.ok /\ b.ok) =>
              IF ~(FloatOk(a.v) /\ FloatOk(b.v))
              THEN unit.res = Failed("Cannot perform arithmetic on non-numeric values")
              ELSE IF unit.token.w = "/" /\ b.v.n = 0
              THEN unit.res = Failed("Division by zero")
              ELSE unit.res.ok /\ IsResultOf(unit.res.v, unit.token.w, a.v, b.v)

(***************************************************************************)
(* Calls of evaluate_condition.                                            *)
(***************************************************************************)
\* the eight operators of the header patterns, and one that is none of them
Comparators == {"=", "X=", ">", "<", ">=", "<=", "~", "~=", "!="}
CondOperands ==
    { Quoted(IntStr(5)), Quoted(DecStr(5)), Quoted(TxtStr("Apple")),
      Quoted(TxtStr("App")), Quoted(TxtStr("app")), Quoted(TxtStr("Banana")),
      Quoted(TxtStr("")), Word("Count"), InTok, Num(3), PVar("Nope") }
EvaluateCalls ==
    {[fn |-> "evaluate_condition", done |-> FALSE, lhs |-> l, op |-> op, rhs |-> r,
      iv |-> iv, store |-> st, res |-> CondFailed("")] :
        l \in CondOperands, op \in Comparators, r \in CondOperands,
        iv \in UnitInputs, st \in UnitStores}

\* evaluate_condition(lhs_token, operator, rhs_token, input_val, line_num)
Unit_evaluate_condition ==
    /\ unit.fn = "evaluate_condition"
    /\ ~unit.done
    /\ unit' = [unit EXCEPT !.done = TRUE,
                            !.res = evaluate_condition(unit.lhs, unit.op, unit.rhs,
                                                       unit.iv, unit.store)]
    /\ UNCHANGED Interp

(***************************************************************************)
(* C12.  On operands that resolve, evaluate_condition is numeric exactly   *)
(* when both resolved operands parse as numbers: then = X= > < >= <=       *)
(* compare the numbers ("5" = "5.0" is true) and ~ and ~= are the          *)
(* invalid-operator error; otherwise = and X= are equality and inequality  *)
(* of the texts, ~ is containment of rhs in lhs, ~= the same without       *)
(* regard to case, and > < >= <= are the invalid-operator error.  Every    *)
(* call yields a boolean or a fatal error.                                 *)
(***************************************************************************)
\* the characters x and y are the same letter, in whatever case
SameLetter(x, y) ==
    \/ x = y
    \/ \E k \in 1..Len(UpperCase) : {x, y} = {UpperCase[k], LowerCase[k]}
\* some stretch of whole is part, character by character under same(_, _)
Occurs(part, whole, same(_, _)) ==
    \E k \in 0..(Len(whole) - Len(part)) :
        \A m \in 1..Len(part) : same(whole[k + m], part[m])
Identical(x, y) == x = y
ExpectedComparison(op, a, b) ==
    IF FloatOk(a) /\ FloatOk(b)
    THEN CASE op = "=" -> CondIs(a.n * b.d = b.n * a.d)
           [] op = "X=" -> CondIs(a.n * b.d # b.n * a.d)
           [] op = ">" -> CondIs(a.n * b.d > b.n * a.d)
           [] op = "<" -> CondIs(a.n * b.d < b.n * a.d)
           [] op = ">=" -> CondIs(a.n * b.d >= b.n * a.d)
           [] op = "<=" -> CondIs(a.n * b.d <= b.n * a.d)
           [] op \in {"~", "~="} -> CondFailed("Invalid operator for numeric comparison")
           [] OTHER -> CondFailed("Unknown numeric operator")
    ELSE CASE op = "=" -> CondIs(Chars(a) = Chars(b))
           [] op = "X=" -> CondIs(Chars(a) # Chars(b))
           [] op = "~" -> CondIs(Occurs(Chars(b), Chars(a), Identical))
           [] op = "~=" -> CondIs(Occurs(Chars(b), Chars(a), SameLetter))
           [] op \in {">", "<", ">=", "<="} ->
                CondFailed("Invalid operator for string comparison")
           [] OTHER -> CondFailed("Unknown string operator")
\* the four examples: "5" = "5.0", "Apple" ~ "App", "Apple" ~= "app" are
\* true, "Apple" > "Banana" is the invalid-operator error
C12_Examples ==
    /\ (unit.lhs = Quoted(IntStr(5)) /\ unit.op = "=" /\ unit.rhs = Quoted(DecStr(5)))
          => unit.res = CondIs(TRUE)
    /\ (unit.lhs = Quoted(TxtStr("Apple")) /\ unit.op = "~"
        /\ unit.rhs = Quoted(TxtStr("App"))) => unit.res = CondIs(TRUE)
    /\ (unit.lhs = Quoted(TxtStr("Apple")) /\ unit.op = "~"
        /\ unit.rhs = Quoted(TxtStr("app"))) => unit.res = CondIs(FALSE)
    /\ (unit.lhs = Quoted(TxtStr("Apple")) /\ unit.op = "~="
        /\ unit.rhs = Quoted(TxtStr("app"))) => unit.res = CondIs(TRUE)
    /\ (unit.lhs = Quoted(TxtStr("Apple")) /\ unit.op = ">"
        /\ unit.rhs = Quoted(TxtStr("Banana")))
          => unit.res = CondFailed("Invalid operator for string comparison")
C12_ConditionSemantics ==
    (unit.fn = "evaluate_condition" /\ unit.done) =>
        LET a == resolve_value(unit.lhs, unit.iv, unit.store)
            b == resolve_value(unit.rhs, unit.iv, unit.store)
        IN  /\ unit.res.ok \/ unit.res.err # ""
            /\ (a.ok /\ b.ok) => unit.res = ExpectedComparison(unit.op, a.v, b.v)
            /\ C12_Examples
\* "5" = "5.0" has been found true
C12_Witness ==
    /\ unit.fn = "evaluate_condition"
    /\ unit.done
    /\ unit.lhs = Quoted(IntStr(5))
    /\ unit.op = "="
    /\ unit.rhs = Quoted(DecStr(5))
    /\ unit.res = CondIs(TRUE)

(***************************************************************************)
(* Two calls of resolve_value on one quoted literal, each with its own     *)
(* input value and store.                                                  *)
(***************************************************************************)
ResolveTwiceCalls ==
    {[fn |-> "resolve_twice", done |-> FALSE, token |-> t, iv |-> iv, store |-> st,
      iv2 |-> iv2, store2 |-> st2, res |-> Failed(""), res2 |-> Failed("")] :
        t \in QuotedTokens, iv \in UnitInputs, st \in UnitStores,
        iv2 \in UnitInputs, st2 \in UnitStores}

Unit_resolve_twice ==
    /\ unit.fn = "resolve_twice"
    /\ ~unit.done
    /\ unit' = [unit EXCEPT !.done = TRUE,
                            !.res = resolve_value(unit.token, unit.iv, unit.store),
                            !.res2 = resolve_value(unit.token, unit.iv2, unit.store2)]
    /\ UNCHANGED Interp

\* no run of the interpreter: only the call in unit
UnitInit ==
    /\ script = <<>>
    /\ argInput = TxtStr("")
    /\ argStdin = <<>>
    /\ pc = "unit"
    /\ parsed = <<>>
    /\ functions = <<>>
    /\ variables = <<>>
    /\ stack = <<>>
    /\ status = "running"
    /\ errmsg = ""
    /\ errln = 0
    /\ out = <<>>
    /\ stdin = <<>>
    /\ execCount = <<>>
    /\ lastInput = TxtStr("")
    /\ icqDepth = 0
    /\ phase = 1
    /\ first = NoOutcome
    /\ unit \in ResolveCalls \cup EvaluateCalls \cup ResolveTwiceCalls
    /\ HAVE_TOAST = FALSE

UnitNext ==
    \/ Unit_resolve_value
    \/ Unit_evaluate_condition
    \/ Unit_resolve_twice

UnitSpec == UnitInit /\ [][UnitNext]_vars

(***************************************************************************)
(* C13.  On a double-quoted literal resolve_value returns the text between *)
(* the quotes and does not fail, whatever the input value and the store:   *)
(* two calls on the same literal with different input values and stores    *)
(* return the same string.                                                 *)
(***************************************************************************)
C13_QuotedLiteralIsInert ==
    (unit.fn = "resolve_twice" /\ unit.done) =>
        /\ unit.res.ok
        /\ unit.res2.ok
        /\ unit.res = unit.res2
        /\ TokenText(unit.token) = <<"\"">> \o Chars(unit.res.v) \o <<"\"">>
\* "%1" resolved under two different input values and two different stores
C13_Witness ==
    /\ unit.fn = "resolve_twice"
    /\ unit.done
    /\ unit.token = Quoted(TxtStr("%1"))
    /\ unit.iv = IntStr(7)
    /\ unit.iv2 = TxtStr("go")
    /\ unit.store # unit.store2
    /\ unit.res = Resolved(TxtStr("%1"))

(***************************************************************************)
(* C14.  The step that executes a write statement one of whose quoted      *)
(* spans contains the character % ends the run with a fatal error and      *)
(* prints nothing.                                                         *)
(***************************************************************************)
HasPercent(x) == \E k \in 1..Len(Chars(x)) : Chars(x)[k] = "%"
AtWriteWithPercent ==
    /\ AtDispatch
    /\ CurrentLine.st.k = "write"
    /\ \E k \in 1..Len(CurrentLine.st.toks) :
          /\ CurrentLine.st.toks[k].t = "quoted"
          /\ HasPercent(CurrentLine.st.toks[k].v)
C14_PercentInQuotesIsRejected ==
    [][AtWriteWithPercent => (status' = "error" /\ out' = out)]_vars

(***************************************************************************)
(* C15.  Once the script is parsed, the line that follows a `##` comment   *)
(* is neither among the top-level statements nor in a subroutine body,     *)
(* while the statement that follows a `#` comment is kept.                 *)
(***************************************************************************)
\* line number j of the file is among the lines parse_script has kept
Kept(j) ==
    \/ \E k \in 1..Len(parsed) : parsed[k].ln = j
    \/ \E fn \in DOMAIN functions : \E k \in 1..Len(functions[fn]) : functions[fn][k].ln = j
C15_DoubleHashDiscardsNextLine ==
    (pc = "run" /\ script \in CommentScripts) =>
        \A j \in 1..(Len(script) - 1) :
            /\ script[j].st.k = "comment2" => ~Kept(j + 1)
            /\ script[j].st.k = "comment" => Kept(j + 1)

(***************************************************************************)
(* C16.  The body of a header is the run of following lines indented, in   *)
(* the source, at least as much as the first body line.  A statement after *)
(* the body at the header's own indentation is outside it: after a %while  *)
(* it executes once, when the loop has exited, and on no iteration; after  *)
(* an %if it executes whatever the condition.                              *)
(***************************************************************************)
\* the indentation that stored line j of the list ls has in the file
SourceIndent(ls, j) == script[ls[j + 1].ln].ind
\* the index after the run, from start on, of lines indented as the first
SourceBlockEnd(ls, start) ==
    IF start >= Len(ls) THEN start
    ELSE LET ends == {j \in start..Len(ls) :
                        /\ j = Len(ls) \/ SourceIndent(ls, j) < SourceIndent(ls, start)
                        /\ \A m \in start..(j - 1) :
                              SourceIndent(ls, m) >= SourceIndent(ls, start)}
         IN  CHOOSE j \in ends : TRUE
\* every block that is executing is the indented run of the source
BlocksAreIndentedRuns ==
    \A k \in 1..Len(stack) :
        (stack[k].fn \in {"execute_if_else", "execute_while_loop"} /\ stack[k].ph = "body") =>
            stack[k].bend = SourceBlockEnd(LinesOf(stack[k].ref), stack[k].bstart)
C16_BodyIsTheIndentedRun ==
    /\ script \in ExtentScripts => BlocksAreIndentedRuns
    /\ \A n \in 0..MaxN :
          script = LoopThenAfter(n) =>
              /\ execCount[6] <= 1
              /\ execCount[6] = 1 => execCount[5] = n
              /\ status = "done" => execCount[6] = 1
    /\ \A c \in BOOLEAN :
          (script = IfThenAfter(c) /\ status = "done") =>
              /\ execCount[2] = (IF c THEN 1 ELSE 0)
              /\ execCount[3] = 1

(***************************************************************************)
(* C17.  Once a branch of a chain has executed, no later %if header of the *)
(* chain has its condition evaluated: a later header that names an unknown *)
(* variable does not abort the run; and no statement of a later body       *)
(* executes.                                                               *)
(***************************************************************************)
C17_LaterHeadersAreSkipped ==
    /\ script = LaterHeaderFaulty =>
          /\ status # "error"
          /\ execCount[4] = 0
          /\ execCount[6] = 0
    /\ \A c2 \in BOOLEAN :
          script = ChainScript(TRUE, c2) => (execCount[4] = 0 /\ execCount[6] = 0)

(***************************************************************************)
(* C18.  No step changes the declared type of a variable whose type has    *)
(* been set by a type declaration.                                         *)
(***************************************************************************)
C18_TypeIsSetOnce ==
    [][\A nm \in DOMAIN variables :
          variables[nm].type # "None" =>
              /\ nm \in DOMAIN variables'
              /\ variables'[nm].type = variables[nm].type]_vars

(***************************************************************************)
(* C19.  Only an input prompt changes the input value: every step that is  *)
(* not the execution of an input prompt (the execution of a declaration,   *)
(* an assignment, a write, send, msg, wait or clear_console, a call, a     *)
(* return of a subroutine, a branch or a loop) leaves the running          *)
(* activation with the input value the activation before it had.           *)
(***************************************************************************)
AtPrompt == AtDispatch /\ CurrentLine.st.k = "icq"
C19_OnlyPromptsChangeInput ==
    [][(pc = "run" /\ stack # <<>> /\ ~AtPrompt) =>
            (stack' # <<>> /\ stack'[Len(stack')].iv = Top.iv)]_vars
\* every kind of statement but the prompt has run, in Main, in a branch, in a
\* loop and in a called subroutine, and the input value is the one given
C19_Witness ==
    /\ script = FrameScript
    /\ argInput = TxtStr("go")
    /\ HAVE_TOAST
    /\ status = "done"
    /\ \A j \in {2} \cup 4..12 \cup {15, 16} : execCount[j] >= 1
    /\ execCount[2] = 2
    /\ Top.iv = TxtStr("go")
    /\ variables["Count"].value = PyFloat(1)

(***************************************************************************)
(* C20.  The step that executes a write statement and returns leaves the   *)
(* reset-colour marker as the last thing printed, whatever the tokens of   *)
(* the statement (none at all, or a colour marker last), and no newline    *)
(* after it.                                                               *)
(***************************************************************************)
AtWrite == AtDispatch /\ CurrentLine.st.k = "write"
C20_WriteEndsWithReset ==
    [][(AtWrite /\ status' = "running") =>
          /\ Len(out') > Len(out)
          /\ out'[Len(out')] = COLOR_CODES("%normal")]_vars

(***************************************************************************)
(* C21.  A line whose whole text is the name of a subroutine calls it,     *)
(* whatever the name: the run does not fail on the line, and when it has   *)
(* ended the body has run once, then the statement after the call.         *)
(***************************************************************************)
C21_NameLineCallsSubroutine ==
    \A nm \in CallableNames :
        script = NamedCallScript(nm) =>
            /\ status # "error"
            /\ execCount[4] = 1 => execCount[2] = 1
            /\ status = "done" => (execCount[2] = 1 /\ execCount[4] = 1)
\* the call of a subroutine named as no statement is: holds for every name
\* that does not start as write, msg, wait or clear_console does
C21_PlainNameCallsSubroutine ==
    \A nm \in {"Foo", "send"} :
        (script = NamedCallScript(nm) /\ status = "done") =>
            (execCount[2] = 1 /\ execCount[4] = 1)

(***************************************************************************)
(* The runs of the loops that count to the ceiling.                        *)
(***************************************************************************)
CeilingInit ==
    /\ phase = 1
    /\ first = NoOutcome
    /\ \E lines \in CeilingScripts : Start(lines, TxtStr(""), <<>>)

CeilingSpec == CeilingInit /\ [][Next]_vars

\* the line of the loop's body in a script of CeilingScripts
CeilingBody == IF script[1].st.k = "fdef" THEN 7 ELSE 5
\* the loop's header asks for n runs of the body
LoopTo(n) == script \in {CountLoop("%dec", n), CountLoopInMain("%dec", n)}

(***************************************************************************)
(* C22.  A loop whose condition is true on exactly 10,000 evaluations and  *)
(* false on the next does not raise the iteration-limit error: its body    *)
(* runs 10,000 times and the run ends normally.                            *)
(***************************************************************************)
C22_CeilingIsReachable ==
    LoopTo(MAX_LOOP_ITERATIONS) =>
        /\ status # "error"
        /\ status = "done" =>
              /\ execCount[CeilingBody] = MAX_LOOP_ITERATIONS
              /\ variables["Count"].value = PyFloat(MAX_LOOP_ITERATIONS)
\* one iteration less: the loop exits normally after 9,999 runs of its body
C22_BelowCeilingExits ==
    LoopTo(MAX_LOOP_ITERATIONS - 1) =>
        /\ status # "error"
        /\ status = "done" =>
              /\ execCount[CeilingBody] = MAX_LOOP_ITERATIONS - 1
              /\ variables["Count"].value = PyFloat(MAX_LOOP_ITERATIONS - 1)

(***************************************************************************)
(* C23.  In every state, a variable of the store that has a value has a    *)
(* declared type, its value passes the validator of that type, and the     *)
(* value is an integer for %int, a float for %dec, a string for %txt and   *)
(* %string.                                                                *)
(***************************************************************************)
KindOf(vartype) ==
    CASE vartype = "%int" -> {"pyint"}
      [] vartype = "%dec" -> {"pyfloat"}
      [] vartype \in {"%txt", "%string"} -> {"int", "dec", "txt"}
      [] OTHER -> {}
WellTyped(var) ==
    var.value # PyNone =>
        /\ var.type # "None"
        /\ validate_variable_type(var.type, PyStr(var.value))
        /\ var.value.form \in KindOf(var.type)
C23_StoreIsWellTyped == \A nm \in DOMAIN variables : WellTyped(variables[nm])
\* the same, in the runs of scripts that declare the type of X at most once
TypeDeclarations == {j \in 1..Len(script) : script[j].st.k = "type"}
C23_WellTypedIfTypedOnce ==
    Cardinality(TypeDeclarations) <= 1 => C23_StoreIsWellTyped

(***************************************************************************)
(* C24.  The step that executes `X%value = X + 1` for a declared %int      *)
(* variable X that holds the integer n succeeds and leaves X holding the   *)
(* integer n + 1.                                                          *)
(***************************************************************************)
AtIntIncrement ==
    /\ AtDispatch
    /\ CurrentLine.st.k = "assign"
    /\ CurrentLine.st = Increment(CurrentLine.st.nm)
    /\ CurrentLine.st.nm \in DOMAIN variables
    /\ variables[CurrentLine.st.nm].type = "%int"
    /\ variables[CurrentLine.st.nm].value.form = "pyint"
C24_IntIncrementSucceeds ==
    [][AtIntIncrement =>
          /\ status' = "running"
          /\ variables'[CurrentLine.st.nm].value =
                PyInt(variables[CurrentLine.st.nm].value.n + 1)]_vars
\* the same statement on a %dec variable that holds n leaves it holding n + 1
AtDecIncrement ==
    /\ AtDispatch
    /\ CurrentLine.st.k = "assign"
    /\ CurrentLine.st = Increment(CurrentLine.st.nm)
    /\ CurrentLine.st.nm \in DOMAIN variables
    /\ variables[CurrentLine.st.nm].type = "%dec"
    /\ variables[CurrentLine.st.nm].value.form = "pyfloat"
    /\ variables[CurrentLine.st.nm].value.d = 1
C24_DecIncrementSucceeds ==
    [][AtDecIncrement =>
          /\ status' = "running"
          /\ variables'[CurrentLine.st.nm].value =
                PyFloat(variables[CurrentLine.st.nm].value.n + 1)]_vars

====
